---- MODULE Spec2Model ----
(***************************************************************************)
(* Model of the govote_voting contract (src/lib/govote-voting/src/lib.rs). *)
(* The contract state is the State struct; every receive function runs to  *)
(* completion as one step.  Each handler is a function from the state      *)
(* before the call and the call's inputs to the state after it and the     *)
(* result returned to the caller.                                          *)
(***************************************************************************)
EXTENDS Integers, Sequences, FiniteSets, TLC

---------------------------------------------------------------------------
(* Bounds of the model.                                                    *)

\* largest number of proposal names handed to contract_init
MaxProposals == 3
\* number of distinct sender addresses
NumAddresses == 2

---------------------------------------------------------------------------
(* Types and inputs.                                                       *)

\* type ProposalId = u8: the largest id a vote parameter can carry
ProposalIdMax == 255
\* largest value of the signed 32-bit residue in which a u32 is held
I32Max == 2147483647

Addresses == 1..NumAddresses
\* the i-th of a supply of distinct proposal names
ProposalName(i) == "proposal " \o ToString(i)
\* proposal_names inputs: n distinct names, or n times the same name
ProposalNamesInputs ==
    UNION { { [i \in 1..n |-> ProposalName(i)], [i \in 1..n |-> ProposalName(1)] } :
              n \in 0..MaxProposals }
ProposalIdInputs == (0..MaxProposals) \cup {ProposalIdMax}

TITLE == "Test Title"
DESCRIPTION == "This is test description."
EXPIRY == 1

\* Status
InProcess == "InProcess"
Finished == "Finished"

\* ContractError, and the Ok of ContractResult
Ok == "Ok"
AlreadyFinished == "AlreadyFinished"
VoterIsNotFound == "VoterIsNotFound"
NotVoted == "NotVoted"
ProposalIsNotFound == "ProposalIsNotFound"

\* VoterState::default() and Proposal::default()
VoterState_default == [weight |-> 0, voted |-> FALSE, vote |-> 0]
Proposal_default == [name |-> "", vote_count |-> 0]
Proposal_new(name) == [name |-> name, vote_count |-> 0]

InitParamsInputs ==
    { [title |-> TITLE, description |-> DESCRIPTION,
       proposal_names |-> names, expiry |-> EXPIRY] :
        names \in ProposalNamesInputs }

---------------------------------------------------------------------------
(* u32 arithmetic.  A u32 is held as its residue modulo 2^32 in the range  *)
(* -2^31 .. 2^31-1: the value 2^32 - k (0 < k <= 2^31) is written -k.      *)
(* The contract is built without overflow checks, so += and -= wrap.       *)

I32Min == (0 - I32Max) - 1

AddU32(a, b) ==
    IF a >= 0 /\ b >= 0 /\ a > I32Max - b
    THEN (a + I32Min) + (b + I32Min)
    ELSE IF a < 0 /\ b < 0 /\ a < I32Min - b
    THEN (a - I32Min) + (b - I32Min)
    ELSE a + b

SubU32(a, b) ==
    IF a >= 0 /\ b < 0 /\ a > I32Max + b
    THEN (a + I32Min) - (b - I32Min)
    ELSE IF a < 0 /\ b > 0 /\ a < I32Min + b
    THEN (a - I32Min) - (b + I32Min)
    ELSE a - b

\* unsigned a < b on residues
LtU32(a, b) ==
    IF (a < 0) = (b < 0) THEN a < b ELSE b < 0

---------------------------------------------------------------------------
(* The contract state.                                                     *)

VARIABLES
    voters,               \* Map<Address, VoterState>
    proposals,            \* Map<ProposalId, Proposal>
    status,               \* Status
    winning_proposal_id,  \* Vec<ProposalId>
    title, description, expiry,
    init_params,          \* the InitParams contract_init was called with
    ever_voted,           \* senders whose vote call has succeeded at least once
    last                  \* the last call: its inputs, result and the state before it

vars == <<voters, proposals, status, winning_proposal_id,
          title, description, expiry, init_params, ever_voted, last>>

\* the State struct as one value
CurState ==
    [voters |-> voters, proposals |-> proposals, status |-> status,
     winning_proposal_id |-> winning_proposal_id,
     title |-> title, description |-> description, expiry |-> expiry]

\* a map with key k set to v (HashMap insert / entry)
MapPut(m, k, v) ==
    [x \in (DOMAIN m) \cup {k} |-> IF x = k THEN v ELSE m[x]]

\* State::new: proposals.insert(i as ProposalId, Proposal::new(name)) for
\* each (i, name) of proposal_names.iter().enumerate().  The cast keeps the
\* low 8 bits of i, and a later insert of the same key replaces the earlier
\* one, so a key holds the name of the last index that is cast to it.
InsertProposals(names) ==
    LET Key(i) == (i - 1) % (ProposalIdMax + 1)
        LastIndex(k) == CHOOSE i \in 1..Len(names) :
                            Key(i) = k /\ i + ProposalIdMax + 1 > Len(names)
    IN [k \in { Key(i) : i \in 1..Len(names) } |-> Proposal_new(names[LastIndex(k)])]

State_new(t, d, proposal_names, e) ==
    [voters |-> << >>,
     proposals |-> InsertProposals(proposal_names),
     status |-> InProcess,
     winning_proposal_id |-> << >>,
     title |-> t, description |-> d, expiry |-> e]

contract_init(params) ==
    State_new(params.title, params.description, params.proposal_names, params.expiry)

\* Option<T>: None is the empty sequence, Some(v) the sequence <<v>>
None == << >>
Some(v) == <<v>>
unwrap(o) == o[1]

\* State::get_voter
get_voter(st, voter_address) ==
    IF voter_address \in DOMAIN st.voters THEN Some(st.voters[voter_address]) ELSE None

\* entry(id).or_insert_with(Proposal::default)
ProposalEntry(st, proposal_id) ==
    IF proposal_id \in DOMAIN st.proposals
    THEN st.proposals[proposal_id] ELSE Proposal_default

\* add_vote_count with = in place of +=
add_vote_count_assigns(st, proposal_id, weight) ==
    LET proposal == ProposalEntry(st, proposal_id) IN
    [st EXCEPT !.proposals =
        MapPut(st.proposals, proposal_id,
               [proposal EXCEPT !.vote_count = weight])]

add_vote_count(st, proposal_id, weight) ==
    LET proposal == ProposalEntry(st, proposal_id) IN
    [st EXCEPT !.proposals =
        MapPut(st.proposals, proposal_id,
               [proposal EXCEPT !.vote_count = AddU32(proposal.vote_count, weight)])]

\* subtract_vote_count with the += of add_vote_count
subtract_vote_count_adds(st, proposal_id, weight) ==
    LET proposal == ProposalEntry(st, proposal_id) IN
    [st EXCEPT !.proposals =
        MapPut(st.proposals, proposal_id,
               [proposal EXCEPT !.vote_count = AddU32(proposal.vote_count, weight)])]

subtract_vote_count(st, proposal_id, weight) ==
    LET proposal == ProposalEntry(st, proposal_id) IN
    [st EXCEPT !.proposals =
        MapPut(st.proposals, proposal_id,
               [proposal EXCEPT !.vote_count = SubU32(proposal.vote_count, weight)])]

\* RecordVote without voter_state.weight = 1
RecordVote_no_weight(st, sender_address, proposal_id) ==
    LET entry == IF sender_address \in DOMAIN st.voters
                 THEN st.voters[sender_address] ELSE VoterState_default
    IN [st EXCEPT !.voters =
           MapPut(st.voters, sender_address,
                  [entry EXCEPT !.voted = TRUE, !.vote = proposal_id])]

\* RecordVote with the right-hand sides of weight and vote exchanged
RecordVote_swapped(st, sender_address, proposal_id) ==
    LET entry == IF sender_address \in DOMAIN st.voters
                 THEN st.voters[sender_address] ELSE VoterState_default
    IN [st EXCEPT !.voters =
           MapPut(st.voters, sender_address,
                  [entry EXCEPT !.voted = TRUE, !.weight = proposal_id, !.vote = 1])]

\* voters.entry(sender_address).or_insert_with(VoterState::default), then
\* voted = true, weight = 1, vote = proposal_id
RecordVote(st, sender_address, proposal_id) ==
    LET entry == IF sender_address \in DOMAIN st.voters
                 THEN st.voters[sender_address] ELSE VoterState_default
    IN [st EXCEPT !.voters =
           MapPut(st.voters, sender_address,
                  [entry EXCEPT !.voted = TRUE, !.weight = 1, !.vote = proposal_id])]

\* contract_vote_apply without the retraction of the previous vote
contract_vote_apply_no_retract(st, sender_address, proposal_id) ==
    LET st2 == RecordVote(st, sender_address, proposal_id)
    IN add_vote_count(st2, proposal_id,
                      unwrap(get_voter(st2, sender_address)).weight)

\* contract_vote_apply retracting only a vote for a different proposal
contract_vote_apply_skip_same(st, sender_address, proposal_id) ==
    LET st1 == IF get_voter(st, sender_address) # None
                  /\ unwrap(get_voter(st, sender_address)).voted = TRUE
                  /\ unwrap(get_voter(st, sender_address)).vote # proposal_id
               THEN subtract_vote_count(st,
                        unwrap(get_voter(st, sender_address)).vote,
                        unwrap(get_voter(st, sender_address)).weight)
               ELSE st
        st2 == RecordVote(st1, sender_address, proposal_id)
    IN add_vote_count(st2, proposal_id,
                      unwrap(get_voter(st2, sender_address)).weight)

\* contract_vote_apply retracting whenever the sender has a record
contract_vote_apply_retract_always(st, sender_address, proposal_id) ==
    LET st1 == IF get_voter(st, sender_address) # None
               THEN subtract_vote_count(st,
                        unwrap(get_voter(st, sender_address)).vote,
                        unwrap(get_voter(st, sender_address)).weight)
               ELSE st
        st2 == RecordVote(st1, sender_address, proposal_id)
    IN add_vote_count(st2, proposal_id,
                      unwrap(get_voter(st2, sender_address)).weight)

\* the mutations of contract_vote, made once both checks have passed
contract_vote_apply(st, sender_address, proposal_id) ==
    LET st1 == IF get_voter(st, sender_address) # None
               THEN IF unwrap(get_voter(st, sender_address)).voted = TRUE
                    THEN subtract_vote_count(st,
                            unwrap(get_voter(st, sender_address)).vote,
                            unwrap(get_voter(st, sender_address)).weight)
                    ELSE st
               ELSE st
        st2 == RecordVote(st1, sender_address, proposal_id)
    IN add_vote_count(st2, proposal_id,
                      unwrap(get_voter(st2, sender_address)).weight)

\* contract_vote without the lookup of the proposal
contract_vote_no_proposal_check(st, sender_address, proposal_id) ==
    IF st.status = Finished
    THEN [state |-> st, result |-> AlreadyFinished]
    ELSE [state |-> contract_vote_apply(st, sender_address, proposal_id),
          result |-> Ok]

\* contract_vote, after params.proposal_id and ctx.sender() are read: the
\* proposal lookup comes first, the status check second
contract_vote(st, sender_address, proposal_id) ==
    IF proposal_id \notin DOMAIN st.proposals
    THEN [state |-> st, result |-> ProposalIsNotFound]
    ELSE IF st.status = Finished
    THEN [state |-> st, result |-> AlreadyFinished]
    ELSE [state |-> contract_vote_apply(st, sender_address, proposal_id),
          result |-> Ok]

\* ScanProposals with <= in the first comparison: a tie replaces the winners
RECURSIVE ScanProposals_ties_reset(_, _, _, _, _)
ScanProposals_ties_reset(props, order, i, winning_vote_count, winners) ==
    IF i > Len(order) THEN winners
    ELSE LET proposal == props[order[i]] IN
         IF ~LtU32(proposal.vote_count, winning_vote_count)
         THEN ScanProposals_ties_reset(props, order, i + 1, proposal.vote_count,
                                       <<order[i]>>)
         ELSE ScanProposals_ties_reset(props, order, i + 1, winning_vote_count,
                                       winners)

\* ScanProposals putting a tied id in front of the winners
RECURSIVE ScanProposals_prepend(_, _, _, _, _)
ScanProposals_prepend(props, order, i, winning_vote_count, winners) ==
    IF i > Len(order) THEN winners
    ELSE LET proposal == props[order[i]] IN
         IF LtU32(winning_vote_count, proposal.vote_count)
         THEN ScanProposals_prepend(props, order, i + 1, proposal.vote_count,
                                    <<order[i]>>)
         ELSE IF winning_vote_count = proposal.vote_count
         THEN ScanProposals_prepend(props, order, i + 1, winning_vote_count,
                                    <<order[i]>> \o winners)
         ELSE ScanProposals_prepend(props, order, i + 1, winning_vote_count, winners)

\* ScanProposals without the else-if branch that keeps ties
RECURSIVE ScanProposals_no_tie(_, _, _, _, _)
ScanProposals_no_tie(props, order, i, winning_vote_count, winners) ==
    IF i > Len(order) THEN winners
    ELSE LET proposal == props[order[i]] IN
         IF LtU32(winning_vote_count, proposal.vote_count)
         THEN ScanProposals_no_tie(props, order, i + 1, proposal.vote_count,
                                   <<order[i]>>)
         ELSE ScanProposals_no_tie(props, order, i + 1, winning_vote_count, winners)

\* the for loop of contract_winning_proposal over state.proposals.iter(),
\* visiting the keys in the sequence order
RECURSIVE ScanProposals(_, _, _, _, _)
ScanProposals(props, order, i, winning_vote_count, winners) ==
    IF i > Len(order) THEN winners
    ELSE LET proposal == props[order[i]] IN
         IF LtU32(winning_vote_count, proposal.vote_count)
         THEN ScanProposals(props, order, i + 1, proposal.vote_count, <<order[i]>>)
         ELSE IF winning_vote_count = proposal.vote_count
         THEN ScanProposals(props, order, i + 1, winning_vote_count,
                            Append(winners, order[i]))
         ELSE ScanProposals(props, order, i + 1, winning_vote_count, winners)

\* contract_winning_proposal without the ensure! on the status
contract_winning_proposal_no_ensure(st, order) ==
    [state |-> [st EXCEPT !.status = Finished,
                          !.winning_proposal_id =
                              ScanProposals(st.proposals, order, 1, 0, << >>)],
     result |-> Ok]

\* contract_winning_proposal with the condition of the ensure! inverted
contract_winning_proposal_inverted_ensure(st, order) ==
    IF st.status # Finished
    THEN [state |-> st, result |-> AlreadyFinished]
    ELSE [state |-> [st EXCEPT !.status = Finished,
                               !.winning_proposal_id =
                                   ScanProposals(st.proposals, order, 1, 0, << >>)],
          result |-> Ok]

\* contract_winning_proposal; order is the order in which the HashMap's
\* iterator yields the proposals
contract_winning_proposal(st, order) ==
    IF st.status = Finished
    THEN [state |-> st, result |-> AlreadyFinished]
    ELSE [state |-> [st EXCEPT !.status = Finished,
                               !.winning_proposal_id =
                                   ScanProposals(st.proposals, order, 1, 0, << >>)],
          result |-> Ok]

\* cancel_vote_apply without voter.voted = false
cancel_vote_apply_keep_voted(st, sender_address) ==
    LET voter == st.voters[sender_address]
        proposal == st.proposals[voter.vote]
    IN [st EXCEPT
          !.proposals = MapPut(st.proposals, voter.vote,
              [proposal EXCEPT
                  !.vote_count = SubU32(proposal.vote_count, voter.weight)]),
          !.voters = MapPut(st.voters, sender_address,
              [voter EXCEPT !.vote = 0])]

\* cancel_vote_apply without voter.vote = 0
cancel_vote_apply_keep_vote(st, sender_address) ==
    LET voter == st.voters[sender_address]
        proposal == st.proposals[voter.vote]
    IN [st EXCEPT
          !.proposals = MapPut(st.proposals, voter.vote,
              [proposal EXCEPT
                  !.vote_count = SubU32(proposal.vote_count, voter.weight)]),
          !.voters = MapPut(st.voters, sender_address,
              [voter EXCEPT !.voted = FALSE])]

\* cancel_vote_apply resetting the whole record to VoterState::default()
cancel_vote_apply_reset_default(st, sender_address) ==
    LET voter == st.voters[sender_address]
        proposal == st.proposals[voter.vote]
    IN [st EXCEPT
          !.proposals = MapPut(st.proposals, voter.vote,
              [proposal EXCEPT
                  !.vote_count = SubU32(proposal.vote_count, voter.weight)]),
          !.voters = MapPut(st.voters, sender_address, VoterState_default)]

\* cancel_vote_apply removing the record from the voters map
cancel_vote_apply_remove(st, sender_address) ==
    LET voter == st.voters[sender_address]
        proposal == st.proposals[voter.vote]
    IN [st EXCEPT
          !.proposals = MapPut(st.proposals, voter.vote,
              [proposal EXCEPT
                  !.vote_count = SubU32(proposal.vote_count, voter.weight)]),
          !.voters = [a \in (DOMAIN st.voters) \ {sender_address} |-> st.voters[a]]]

\* the mutations of cancel_vote, made once all four checks have passed
cancel_vote_apply(st, sender_address) ==
    LET voter == st.voters[sender_address]
        proposal == st.proposals[voter.vote]
    IN [st EXCEPT
          !.proposals = MapPut(st.proposals, voter.vote,
              [proposal EXCEPT
                  !.vote_count = SubU32(proposal.vote_count, voter.weight)]),
          !.voters = MapPut(st.voters, sender_address,
              [voter EXCEPT !.voted = FALSE, !.vote = 0])]

\* cancel_vote with the status check moved behind the mutations
cancel_vote_late_status_check(st, sender_address) ==
    IF sender_address \notin DOMAIN st.voters
    THEN [state |-> st, result |-> VoterIsNotFound]
    ELSE IF st.voters[sender_address].voted # TRUE
    THEN [state |-> st, result |-> NotVoted]
    ELSE IF st.voters[sender_address].vote \notin DOMAIN st.proposals
    THEN [state |-> st, result |-> ProposalIsNotFound]
    ELSE [state |-> cancel_vote_apply(st, sender_address),
          result |-> IF st.status = Finished THEN AlreadyFinished ELSE Ok]

\* cancel_vote without the ensure! on voter.voted
cancel_vote_no_voted_check(st, sender_address) ==
    IF st.status = Finished
    THEN [state |-> st, result |-> AlreadyFinished]
    ELSE IF sender_address \notin DOMAIN st.voters
    THEN [state |-> st, result |-> VoterIsNotFound]
    ELSE IF st.voters[sender_address].vote \notin DOMAIN st.proposals
    THEN [state |-> st, result |-> ProposalIsNotFound]
    ELSE [state |-> cancel_vote_apply(st, sender_address), result |-> Ok]

cancel_vote(st, sender_address) ==
    IF st.status = Finished
    THEN [state |-> st, result |-> AlreadyFinished]
    ELSE IF sender_address \notin DOMAIN st.voters
    THEN [state |-> st, result |-> VoterIsNotFound]
    ELSE IF st.voters[sender_address].voted # TRUE
    THEN [state |-> st, result |-> NotVoted]
    ELSE IF st.voters[sender_address].vote \notin DOMAIN st.proposals
    THEN [state |-> st, result |-> ProposalIsNotFound]
    ELSE [state |-> cancel_vote_apply(st, sender_address), result |-> Ok]

\* The orders in which proposals.iter() can yield the key set S.  The order
\* of a HashMap is fixed by the library; the tests observe it for the map
\* State::new builds from two names (keys 0 and 1): 1 comes before 0.  For
\* every other key set any order is possible.
IterOrders(S) ==
    IF S = {0, 1}
    THEN { <<1, 0>> }
    ELSE { f \in [1..Cardinality(S) -> S] :
              \A i, j \in DOMAIN f : f[i] = f[j] => i = j }

---------------------------------------------------------------------------
(* The state machine.                                                      *)

\* the state variables take the fields of st
Becomes(st) ==
    /\ voters' = st.voters
    /\ proposals' = st.proposals
    /\ status' = st.status
    /\ winning_proposal_id' = st.winning_proposal_id
    /\ title' = st.title
    /\ description' = st.description
    /\ expiry' = st.expiry

Init ==
    \E params \in InitParamsInputs :
        LET st == contract_init(params) IN
        /\ voters = st.voters
        /\ proposals = st.proposals
        /\ status = st.status
        /\ winning_proposal_id = st.winning_proposal_id
        /\ title = st.title
        /\ description = st.description
        /\ expiry = st.expiry
        /\ init_params = params
        /\ ever_voted = {}
        /\ last = [op |-> "init", sender |-> 0, proposal_id |-> 0,
                   result |-> Ok, pre |-> st]

Vote(sender, proposal_id) ==
    LET r == contract_vote(CurState, sender, proposal_id) IN
    /\ Becomes(r.state)
    /\ ever_voted' = IF r.result = Ok THEN ever_voted \cup {sender} ELSE ever_voted
    /\ last' = [op |-> "vote", sender |-> sender, proposal_id |-> proposal_id,
                result |-> r.result, pre |-> CurState]
    /\ UNCHANGED init_params

CancelVote(sender) ==
    LET r == cancel_vote(CurState, sender) IN
    /\ Becomes(r.state)
    /\ last' = [op |-> "cancelVote", sender |-> sender, proposal_id |-> 0,
                result |-> r.result, pre |-> CurState]
    /\ UNCHANGED <<init_params, ever_voted>>

WinningProposal(sender, order) ==
    LET r == contract_winning_proposal(CurState, order) IN
    /\ Becomes(r.state)
    /\ last' = [op |-> "winningProposal", sender |-> sender, proposal_id |-> 0,
                result |-> r.result, pre |-> CurState]
    /\ UNCHANGED <<init_params, ever_voted>>

Next ==
    \/ \E sender \in Addresses, proposal_id \in ProposalIdInputs :
          Vote(sender, proposal_id)
    \/ \E sender \in Addresses : CancelVote(sender)
    \/ \E sender \in Addresses, order \in IterOrders(DOMAIN proposals) :
          WinningProposal(sender, order)

Spec == Init /\ [][Next]_vars

---------------------------------------------------------------------------
(* Helpers for the properties.                                             *)

RECURSIVE SumOver(_, _)
\* the sum of f[x] over the finite set S
SumOver(f, S) ==
    IF S = {} THEN 0
    ELSE LET x == CHOOSE y \in S : TRUE IN f[x] + SumOver(f, S \ {x})

\* sum of vote_count over all proposals of st
TotalVoteCount(st) ==
    SumOver([p \in DOMAIN st.proposals |-> st.proposals[p].vote_count],
            DOMAIN st.proposals)

\* sum of weight over the voter records of st with voted == true
TotalVotedWeight(st) ==
    LET V == { a \in DOMAIN st.voters : st.voters[a].voted } IN
    SumOver([a \in V |-> st.voters[a].weight], V)

\* the voter records of st that count for proposal p
VotersFor(st, p) ==
    { a \in DOMAIN st.voters : st.voters[a].voted /\ st.voters[a].vote = p }

IsCommand == last.op \in {"vote", "cancelVote", "winningProposal"}

---------------------------------------------------------------------------
(* Properties.                                                             *)

\* C1: while status is InProcess, the sum of vote_count over all proposals
\* equals the sum of weight over all voter records whose voted flag is true.
C1_SumInvariant ==
    status = InProcess => TotalVoteCount(CurState) = TotalVotedWeight(CurState)

\* C1 witness: an InProcess state after a successful cancelVote in which
\* another voter's vote is still counted.
C1_Witness ==
    /\ status = InProcess
    /\ last.op = "cancelVote" /\ last.result = Ok
    /\ TotalVoteCount(CurState) >= 1
    /\ \E a \in DOMAIN voters : ~voters[a].voted

\* C2 (as claimed): once the session is Finished, every vote (any proposal
\* id), cancelVote and winningProposal call fails with AlreadyFinished and
\* leaves the session unchanged.
C2_AfterTallyAlreadyFinished ==
    (IsCommand /\ last.pre.status = Finished) =>
        (last.result = AlreadyFinished /\ CurState = last.pre)

\* C3: status starts InProcess, changes only by a successful
\* winningProposal from InProcess to Finished, and once Finished both the
\* status and the stored winners stay as they are.
C3_StatusMonotonic ==
    /\ status = InProcess
    /\ [][ /\ (status' # status =>
                  /\ status = InProcess /\ status' = Finished
                  /\ last'.op = "winningProposal" /\ last'.result = Ok)
           /\ (status = Finished =>
                  /\ status' = Finished
                  /\ winning_proposal_id' = winning_proposal_id) ]_vars

\* C3 witness: a call made on a Finished session that stores two winners.
C3_Witness ==
    /\ IsCommand
    /\ last.pre.status = Finished
    /\ status = Finished
    /\ Len(winning_proposal_id) >= 2

\* C4: a command that returns an error leaves the whole session unchanged.
C4_FailedCommandNoChange ==
    (IsCommand /\ last.result # Ok) => CurState = last.pre

\* C4 witness: a cancelVote rejected with AlreadyFinished for a sender whose
\* vote is counted.
C4_Witness ==
    /\ last.op = "cancelVote"
    /\ last.result = AlreadyFinished
    /\ last.sender \in DOMAIN voters
    /\ voters[last.sender].voted

\* C5: vote(id) with id outside the initialized range 0..n-1 fails with
\* ProposalIsNotFound and leaves the session unchanged; no voter record is
\* created for the caller.
C5_VoteOutOfRange ==
    (last.op = "vote"
        /\ last.proposal_id \notin 0..(Len(init_params.proposal_names) - 1)) =>
        /\ last.result = ProposalIsNotFound
        /\ CurState = last.pre
        /\ (last.sender \notin DOMAIN last.pre.voters => last.sender \notin DOMAIN voters)

\* C5 witness: an out-of-range vote by a sender without a record, in a
\* session that has proposals and another voter.
C5_Witness ==
    /\ last.op = "vote"
    /\ last.proposal_id = Len(init_params.proposal_names)
    /\ Len(init_params.proposal_names) >= 1
    /\ last.sender \notin DOMAIN last.pre.voters
    /\ DOMAIN voters # {}

\* C6: for every proposal p, vote_count(p) is the number of voter records
\* with voted == true and vote == p.
C6_OneVotePerAccount ==
    \A p \in DOMAIN proposals :
        proposals[p].vote_count = Cardinality(VotersFor(CurState, p))

\* C6 witness: a voter who cancelled has voted again while another voter's
\* vote is counted for the same proposal.
C6_Witness ==
    /\ last.op = "vote" /\ last.result = Ok
    /\ last.sender \in DOMAIN last.pre.voters
    /\ ~last.pre.voters[last.sender].voted
    /\ proposals[last.proposal_id].vote_count = 2

\* C7: a voter whose counted vote is A votes for a different proposal B:
\* A loses exactly the voter's weight, B gains exactly the voter's weight,
\* every other count is unchanged and so is the sum of all counts.
C7_VoteChangeConservation ==
    (/\ last.op = "vote" /\ last.result = Ok
     /\ last.sender \in DOMAIN last.pre.voters
     /\ last.pre.voters[last.sender].voted
     /\ last.pre.voters[last.sender].vote # last.proposal_id) =>
        LET A == last.pre.voters[last.sender].vote
            B == last.proposal_id
            w == last.pre.voters[last.sender].weight
        IN /\ DOMAIN proposals = DOMAIN last.pre.proposals
           /\ proposals[A].vote_count = last.pre.proposals[A].vote_count - w
           /\ proposals[B].vote_count = last.pre.proposals[B].vote_count + w
           /\ \A p \in DOMAIN proposals \ {A, B} :
                 proposals[p].vote_count = last.pre.proposals[p].vote_count
           /\ TotalVoteCount(CurState) = TotalVoteCount(last.pre)

\* C7 witness: a voter has moved a counted vote from one proposal to another.
C7_Witness ==
    /\ last.op = "vote" /\ last.result = Ok
    /\ last.sender \in DOMAIN last.pre.voters
    /\ last.pre.voters[last.sender].voted
    /\ last.pre.voters[last.sender].vote # last.proposal_id
    /\ last.pre.proposals[last.proposal_id].vote_count = 1

\* C8: from an InProcess state, a voter casting a vote for proposal p twice
\* in a row leaves the session (every vote_count and the voter's record)
\* as casting it once does.
C8_VoteIdempotent ==
    /\ status = InProcess =>
          \A s \in Addresses, p \in DOMAIN proposals :
              LET once == contract_vote(CurState, s, p)
                  twice == contract_vote(once.state, s, p)
              IN /\ once.result = Ok
                 /\ twice.result = Ok
                 /\ twice.state = once.state
    /\ (/\ last.op = "vote" /\ last.result = Ok
        /\ last.sender \in DOMAIN last.pre.voters
        /\ last.pre.voters[last.sender].voted
        /\ last.pre.voters[last.sender].vote = last.proposal_id) =>
          CurState = last.pre

\* C8 witness: a voter whose counted vote is for p has cast a vote for p
\* again, while another voter's vote is counted for p too.
C8_Witness ==
    /\ last.op = "vote" /\ last.result = Ok
    /\ last.sender \in DOMAIN last.pre.voters
    /\ last.pre.voters[last.sender].voted
    /\ last.pre.voters[last.sender].vote = last.proposal_id
    /\ last.pre.proposals[last.proposal_id].vote_count = 2

\* C9 (as claimed): in an InProcess session, cancelVote by a sender who
\* never voted fails with NotVoted, and cancelVote by a sender without a
\* voter record fails with VoterIsNotFound.
C9_NeverVotedIsNotVoted ==
    (last.op = "cancelVote" /\ last.pre.status = InProcess) =>
        /\ (last.sender \notin ever_voted => last.result = NotVoted)
        /\ (last.sender \notin DOMAIN last.pre.voters =>
               last.result = VoterIsNotFound)

\* C9 (amended): in an InProcess session, cancelVote by a sender whose
\* record has voted == false fails with NotVoted, and cancelVote by a
\* sender without a voter record, which every sender who never voted is,
\* fails with VoterIsNotFound.
C9_CancelVoteErrors ==
    (last.op = "cancelVote" /\ last.pre.status = InProcess) =>
        /\ ((last.sender \in DOMAIN last.pre.voters
               /\ ~last.pre.voters[last.sender].voted) =>
               last.result = NotVoted)
        /\ (last.sender \notin DOMAIN last.pre.voters =>
               last.result = VoterIsNotFound)
        /\ (last.sender \notin ever_voted => last.result = VoterIsNotFound)

\* C9 witness: cancelVote in an InProcess session by a sender who voted
\* and cancelled before.
C9_Witness ==
    /\ last.op = "cancelVote"
    /\ last.pre.status = InProcess
    /\ last.sender \in ever_voted
    /\ last.sender \in DOMAIN last.pre.voters
    /\ ~last.pre.voters[last.sender].voted

\* C10: in an InProcess session, cancelVote by a voter whose record has
\* voted == true succeeds, takes the voter's weight off the count of the
\* proposal they chose, leaves the record in the map with voted = false and
\* vote = 0, and changes no other proposal and no other voter's record.
C10_CancelVoteEffect ==
    (/\ last.op = "cancelVote" /\ last.pre.status = InProcess
     /\ last.sender \in DOMAIN last.pre.voters
     /\ last.pre.voters[last.sender].voted) =>
        LET v == last.pre.voters[last.sender]
            p == v.vote
        IN /\ last.result = Ok
           /\ DOMAIN proposals = DOMAIN last.pre.proposals
           /\ proposals[p] = [last.pre.proposals[p] EXCEPT
                                 !.vote_count = last.pre.proposals[p].vote_count - v.weight]
           /\ \A q \in DOMAIN proposals \ {p} : proposals[q] = last.pre.proposals[q]
           /\ DOMAIN voters = DOMAIN last.pre.voters
           /\ voters[last.sender] = [weight |-> v.weight, voted |-> FALSE, vote |-> 0]
           /\ \A a \in DOMAIN voters \ {last.sender} : voters[a] = last.pre.voters[a]
           /\ status = InProcess
           /\ winning_proposal_id = last.pre.winning_proposal_id

\* C10 witness: a vote for a proposal other than 0 has been cancelled while
\* another voter's vote stays counted.
C10_Witness ==
    /\ last.op = "cancelVote" /\ last.result = Ok
    /\ last.pre.voters[last.sender].vote # 0
    /\ \E a \in DOMAIN voters : a # last.sender /\ voters[a].voted

\* the largest vote_count of the registry props (0 when it is empty)
MaxVoteCount(props) ==
    IF DOMAIN props = {} THEN 0
    ELSE CHOOSE m \in { props[p].vote_count : p \in DOMAIN props } :
            \A p \in DOMAIN props : props[p].vote_count <= m

\* the ids of the registry props whose vote_count is the largest one
MaxIds(props) ==
    { p \in DOMAIN props : props[p].vote_count = MaxVoteCount(props) }

\* the ids of MaxIds(props) in the order in which order lists them
MaxIdsInOrder(props, order) ==
    LET IsMax(p) == p \in MaxIds(props) IN SelectSeq(order, IsMax)

TallySucceeded == last.op = "winningProposal" /\ last.result = Ok

\* C11: after a successful tally the stored winners are exactly the ids
\* whose vote_count is the maximum at the time of the tally, each id once;
\* when every count is 0 they are all the proposals.
C11_WinnersAreTheMaxima ==
    TallySucceeded =>
        /\ { winning_proposal_id[i] : i \in DOMAIN winning_proposal_id } =
               MaxIds(last.pre.proposals)
        /\ Len(winning_proposal_id) = Cardinality(MaxIds(last.pre.proposals))
        /\ ((\A p \in DOMAIN last.pre.proposals :
                 last.pre.proposals[p].vote_count = 0) =>
              Len(winning_proposal_id) = Cardinality(DOMAIN last.pre.proposals))

\* C11 witness: a tally of three proposals, two of them tied at one vote.
C11_Witness ==
    /\ TallySucceeded
    /\ Cardinality(DOMAIN proposals) = 3
    /\ MaxVoteCount(proposals) = 1
    /\ Len(winning_proposal_id) = 2

C14_TallyAlwaysPossible ==
    /\ status = InProcess =>
          \A order \in IterOrders(DOMAIN proposals) :
              LET r == contract_winning_proposal(CurState, order) IN
              /\ r.result = Ok
              /\ r.state.status = Finished
              /\ r.state.proposals = proposals
              /\ r.state.voters = voters
    /\ (last.op = "winningProposal" /\ last.pre.status = InProcess) =>
          /\ last.result = Ok
          /\ status = Finished
          /\ proposals = last.pre.proposals
          /\ voters = last.pre.voters
          /\ \E o \in IterOrders(DOMAIN proposals) :
                 winning_proposal_id = ScanProposals(proposals, o, 1, 0, << >>)

\* C14 witness: the second address has run the tally before any vote was
\* cast, in a session with at least two proposals.
C14_Witness ==
    /\ TallySucceeded
    /\ last.sender = 2
    /\ last.pre.voters = << >>
    /\ ever_voted = {}
    /\ Cardinality(DOMAIN proposals) >= 2

\* C15: in every reachable InProcess state vote(p) with p in the registry
\* succeeds for every caller, with or without a record, voted or not, and
\* leaves the caller's record as weight = 1, voted = true, vote = p; a vote
\* fails only with ProposalIsNotFound or AlreadyFinished.
C15_AnyAccountCanVote ==
    /\ status = InProcess =>
          \A s \in Addresses, p \in DOMAIN proposals :
              LET r == contract_vote(CurState, s, p) IN
              /\ r.result = Ok
              /\ r.state.voters[s] = [weight |-> 1, voted |-> TRUE, vote |-> p]
    /\ last.op = "vote" =>
          last.result \in {Ok, ProposalIsNotFound, AlreadyFinished}
    /\ (/\ last.op = "vote" /\ last.pre.status = InProcess
        /\ last.proposal_id \in DOMAIN last.pre.proposals) =>
          /\ last.result = Ok
          /\ voters[last.sender] =
                 [weight |-> 1, voted |-> TRUE, vote |-> last.proposal_id]

\* C15 witness: a sender without a record has voted while another sender's
\* record exists.
C15_Witness ==
    /\ last.op = "vote" /\ last.result = Ok
    /\ last.sender \notin DOMAIN last.pre.voters
    /\ DOMAIN last.pre.voters # {}

\* C17: no decrement underflows: whenever a vote retracts the previous
\* vote or a cancelVote takes a vote back, the vote_count it subtracts from
\* is at least the weight, so no vote_count goes below zero or wraps.
C17_NoUnderflow ==
    /\ \A p \in DOMAIN proposals : proposals[p].vote_count >= 0
    /\ \A a \in DOMAIN voters :
          voters[a].voted =>
              ~LtU32(ProposalEntry(CurState, voters[a].vote).vote_count,
                     voters[a].weight)
    /\ (/\ last.result = Ok
        /\ last.op \in {"vote", "cancelVote"}
        /\ last.sender \in DOMAIN last.pre.voters
        /\ last.pre.voters[last.sender].voted) =>
          LET v == last.pre.voters[last.sender] IN
          /\ ProposalEntry(last.pre, v.vote).vote_count >= v.weight
          /\ v.weight >= 0

\* C17 witness: a vote for another proposal has retracted the only vote
\* counted for the previous one.
C17_Witness ==
    /\ last.op = "vote" /\ last.result = Ok
    /\ last.sender \in DOMAIN last.pre.voters
    /\ last.pre.voters[last.sender].voted
    /\ last.pre.voters[last.sender].vote # last.proposal_id
    /\ last.pre.proposals[last.pre.voters[last.sender].vote].vote_count = 1
    /\ proposals[last.pre.voters[last.sender].vote].vote_count = 0

\* C18: the proposal set is fixed at creation: in every state the ids of
\* the registry are those contract_init made and every proposal has the
\* name it was given; add_vote_count and subtract_vote_count never insert
\* a default proposal with the empty name.
C18_ProposalSetFixed ==
    LET initial == contract_init(init_params).proposals IN
    /\ DOMAIN proposals = DOMAIN initial
    /\ \A p \in DOMAIN proposals :
          /\ proposals[p].name = initial[p].name
          /\ proposals[p].name # Proposal_default.name
    /\ Len(init_params.proposal_names) <= ProposalIdMax + 1 =>
          DOMAIN proposals = 0..(Len(init_params.proposal_names) - 1)

\* C18 witness: in a session of three proposals, in which both senders
\* have voted, a vote has run both subtract_vote_count and add_vote_count.
C18_Witness ==
    /\ Len(init_params.proposal_names) = 3
    /\ last.op = "vote" /\ last.result = Ok
    /\ last.sender \in DOMAIN last.pre.voters
    /\ last.pre.voters[last.sender].voted
    /\ Cardinality(ever_voted) = 2

\* C19: cancelVote never fails with ProposalIsNotFound: it returns Ok,
\* AlreadyFinished, VoterIsNotFound or NotVoted, in every reachable state
\* and for every sender.
C19_CancelVoteNeverProposalNotFound ==
    /\ last.op = "cancelVote" =>
          last.result \in {Ok, AlreadyFinished, VoterIsNotFound, NotVoted}
    /\ \A s \in Addresses :
          cancel_vote(CurState, s).result
              \in {Ok, AlreadyFinished, VoterIsNotFound, NotVoted}
    /\ \A s \in DOMAIN voters :
          (status = InProcess /\ voters[s].voted) =>
              cancel_vote(CurState, s).result = Ok

\* C19 witness: a cancelVote has passed the lookup of the proposal with the
\* largest id of a session of at least two proposals.
C19_Witness ==
    /\ last.op = "cancelVote" /\ last.result = Ok
    /\ Cardinality(DOMAIN proposals) >= 2
    /\ last.pre.voters[last.sender].vote = Cardinality(DOMAIN proposals) - 1

\* C20: a voter who voted and cancelled can vote again: the vote for a
\* registered p succeeds, adds 1 to the vote_count of p and retracts
\* nothing; proposal 0, which the cancelled record names, is not
\* decremented.
C20_RevoteAfterCancel ==
    (/\ last.op = "vote"
     /\ last.pre.status = InProcess
     /\ last.proposal_id \in DOMAIN last.pre.proposals
     /\ last.sender \in DOMAIN last.pre.voters
     /\ ~last.pre.voters[last.sender].voted) =>
        /\ last.result = Ok
        /\ DOMAIN proposals = DOMAIN last.pre.proposals
        /\ proposals[last.proposal_id].vote_count =
               last.pre.proposals[last.proposal_id].vote_count + 1
        /\ \A q \in DOMAIN proposals \ {last.proposal_id} :
               proposals[q] = last.pre.proposals[q]
        /\ (0 \in DOMAIN proposals /\ last.proposal_id # 0) =>
               proposals[0].vote_count = last.pre.proposals[0].vote_count

\* C20 witness: a voter who cancelled has voted for a proposal other than 0
\* while another voter's vote is counted for proposal 0.
C20_Witness ==
    /\ last.op = "vote" /\ last.result = Ok
    /\ last.sender \in DOMAIN last.pre.voters
    /\ ~last.pre.voters[last.sender].voted
    /\ last.pre.voters[last.sender].vote = 0
    /\ last.proposal_id # 0
    /\ proposals[0].vote_count = 1

\* C21: every voter record that exists has weight exactly 1, whether
\* voted is true or false.
C21_WeightIsOne ==
    \A a \in DOMAIN voters : voters[a].weight = 1

\* C21 witness: one record is left with voted = false by a cancelVote and
\* another record has voted = true.
C21_Witness ==
    /\ \E a \in DOMAIN voters : ~voters[a].voted
    /\ \E a \in DOMAIN voters : voters[a].voted
    /\ last.op = "cancelVote" /\ last.result = Ok

\* C22: voter records are created only by a successful vote and are never
\* removed: the senders with a record are those whose vote has succeeded,
\* no step removes a record, and a step that adds one is a successful vote
\* of the sender it is added for.
C22_RecordsPersist ==
    /\ voters = << >>
    /\ [](DOMAIN voters = ever_voted)
    /\ [][ /\ DOMAIN voters \subseteq DOMAIN voters'
           /\ (DOMAIN voters' # DOMAIN voters =>
                  /\ last'.op = "vote" /\ last'.result = Ok
                  /\ DOMAIN voters' = DOMAIN voters \cup {last'.sender})
           /\ (last'.result # Ok => DOMAIN voters' = DOMAIN voters) ]_vars

\* C22 witness: after the tally one sender still has the record its
\* cancelVote left and another sender, who never voted, has none.
C22_Witness ==
    /\ status = Finished
    /\ \E a \in DOMAIN voters : ~voters[a].voted
    /\ \E a \in Addresses : a \notin DOMAIN voters

\* C23: every voter record with voted == true has as vote the id of a
\* proposal of the registry, and every record with voted == false has
\* vote == 0.
C23_VoteFieldValid ==
    \A a \in DOMAIN voters :
        /\ voters[a].voted => voters[a].vote \in DOMAIN proposals
        /\ ~voters[a].voted => voters[a].vote = 0

\* C23 witness: a vote for a proposal other than 0 has been cancelled and
\* another record counts for the proposal with the largest id.
C23_Witness ==
    /\ last.op = "cancelVote" /\ last.result = Ok
    /\ last.pre.voters[last.sender].vote # 0
    /\ voters[last.sender].vote = 0
    /\ \E a \in DOMAIN voters :
          voters[a].voted /\ voters[a].vote = Cardinality(DOMAIN proposals) - 1

\* the vote and cancelVote commands a sender can issue
VoterCommands ==
    { [op |-> "vote", proposal_id |-> p] : p \in ProposalIdInputs }
        \cup { [op |-> "cancelVote", proposal_id |-> 0] }

\* the receive function of command c called by sender on state st
RunCommand(st, sender, c) ==
    IF c.op = "vote"
    THEN contract_vote(st, sender, c.proposal_id)
    ELSE cancel_vote(st, sender)

\* C24: commands of different voters commute: from every InProcess state,
\* for two distinct senders and any vote or cancelVote command of each,
\* running the first sender's command and then the second's gives the same
\* two results and the same final state as running them in the other order.
C24_VoterCommandsCommute ==
    status = InProcess =>
        \A s1, s2 \in Addresses :
            s1 < s2 =>
                \A c1, c2 \in VoterCommands :
                    LET first1 == RunCommand(CurState, s1, c1)
                        then2 == RunCommand(first1.state, s2, c2)
                        first2 == RunCommand(CurState, s2, c2)
                        then1 == RunCommand(first2.state, s1, c1)
                    IN /\ first1.result = then1.result
                       /\ first2.result = then2.result
                       /\ then2.state = then1.state

\* C24 witness: an InProcess state in which one sender's cancelVote has
\* taken a vote off a proposal that the other sender's vote still counts
\* for, so a vote and a cancelVote of two senders have met on one count.
C24_Witness ==
    /\ status = InProcess
    /\ last.op = "cancelVote" /\ last.result = Ok
    /\ \E a \in DOMAIN voters :
          /\ a # last.sender
          /\ voters[a].voted
          /\ voters[a].vote = last.pre.voters[last.sender].vote
    /\ Cardinality(DOMAIN proposals) >= 2

---------------------------------------------------------------------------
(* Initialization with long lists of names.  The sessions of SpecWide are  *)
(* those of Spec and those made from more names than a ProposalId has      *)
(* values; their votes and cancellations are the steps of SpecWide.        *)

\* how many names beyond the ProposalIdMax + 1 values of a ProposalId the
\* longest list has
MaxExtraNames == 1

LongProposalNamesInputs ==
    { [i \in 1..n |-> ProposalName(i)] :
        n \in (ProposalIdMax + 1)..(ProposalIdMax + 1 + MaxExtraNames) }

InitWide ==
    \E names \in ProposalNamesInputs \cup LongProposalNamesInputs :
        LET params == [title |-> TITLE, description |-> DESCRIPTION,
                       proposal_names |-> names, expiry |-> EXPIRY]
            st == contract_init(params)
        IN /\ voters = st.voters
           /\ proposals = st.proposals
           /\ status = st.status
           /\ winning_proposal_id = st.winning_proposal_id
           /\ title = st.title
           /\ description = st.description
           /\ expiry = st.expiry
           /\ init_params = params
           /\ ever_voted = {}
           /\ last = [op |-> "init", sender |-> 0, proposal_id |-> 0,
                      result |-> Ok, pre |-> st]

NextWide ==
    \/ \E sender \in Addresses, proposal_id \in ProposalIdInputs :
          Vote(sender, proposal_id)
    \/ \E sender \in Addresses : CancelVote(sender)

SpecWide == InitWide /\ [][NextWide]_vars

\* C16 (as claimed): initialization with n proposal names gives status
\* InProcess, no voters, no winners and exactly n proposals with ids 0..n-1,
\* id i carrying the i-th name and vote_count 0, for every n.
C16_InitAssignsAllIds ==
    last.op = "init" =>
        LET names == init_params.proposal_names IN
        /\ status = InProcess
        /\ voters = << >>
        /\ winning_proposal_id = << >>
        /\ DOMAIN proposals = 0..(Len(names) - 1)
        /\ Cardinality(DOMAIN proposals) = Len(names)
        /\ \A i \in DOMAIN proposals :
              i + 1 <= Len(names) =>
                  proposals[i] = [name |-> names[i + 1], vote_count |-> 0]

====
